---- MODULE Spec2Model ----
(***************************************************************************)
(* Chain-relative transaction lookup of btcchain (txlookup.go).            *)
(*                                                                         *)
(* The state is the block tree, the best-chain tip, the side-block cache   *)
(* and the main-chain transaction storage, plus the record of the last     *)
(* call made by the (single-threaded) caller: its arguments, the returned  *)
(* store and error, and the trace of the collaborator calls it made.       *)
(***************************************************************************)
EXTENDS Integers, Sequences, FiniteSets, TLC

VARIABLES blocks,      \* node -> sequence of transaction hashes of its block
          bestChain,   \* b.bestChain: tip of the best chain, or NoNode
          blockCache,  \* b.blockCache: the nodes whose block is cached
          dbTx,        \* b.db: hash -> transaction data as of the best chain
          dbFail,      \* b.db: the blocks whose read fails
          op,          \* the call that has just returned, or "idle"
          node,        \* its node argument
          txList,      \* its hash list (fetchTxList)
          block,       \* its block (fetchInputTransactions, view mutators)
          preStore,    \* the store handed to the view mutators
          txStore,     \* the store returned (or left by the mutators)
          err,         \* the error returned; ErrPanic for a runtime panic
          log          \* collaborator calls made, in order

vars == <<blocks, bestChain, blockCache, dbTx, dbFail, op, node, txList, block,
          preStore, txStore, err, log>>

chainVars == <<blocks, bestChain, blockCache, dbTx, dbFail>>

----------------------------------------------------------------------------
(* Bounds *)

MaxList == 2       \* longest hash list handed to fetchTxList
MaxBlockTx == 1    \* most non-coinbase transactions in one block of the tree
MaxCallTx == 2     \* most non-coinbase transactions in a block handed to a call
MaxFaultTx == 1    \* most non-coinbase transactions in a tree explored with a fault

----------------------------------------------------------------------------
(* The block tree: G - M1 - M2 - M3 with the branch M1 - S2 - S3.  M4 and  *)
(* S4 are candidate nodes extending the two leaves.                        *)

NoNode == "nil"
Genesis == "G"
TreeNodes == {"G", "M1", "M2", "M3", "S2", "S3"}
CandidateNodes == {"M4", "S4"}
AllNodes == TreeNodes \cup CandidateNodes

Parent(n) ==
    CASE n = "M1" -> "G"
      [] n = "M2" -> "M1"
      [] n = "M3" -> "M2"
      [] n = "M4" -> "M3"
      [] n = "S2" -> "M1"
      [] n = "S3" -> "S2"
      [] n = "S4" -> "S3"
      [] OTHER -> NoNode

RECURSIVE PathTo(_)
PathTo(n) == IF n = NoNode THEN <<>> ELSE Append(PathTo(Parent(n)), n)

Height(n) == Len(PathTo(n)) - 1

SeqToSet(s) == {s[i] : i \in 1..Len(s)}

----------------------------------------------------------------------------
(* Transactions.  A hash determines its transaction: output count and      *)
(* inputs (origin hash, origin output index).                              *)

ZeroHash == "0000"
NoTx == "notx"
OrdinaryTx == {"X", "Y", "Z"}

Coinbase(n) ==
    CASE n = "G" -> "cbG"
      [] n = "M1" -> "cbM1"
      [] n = "M2" -> "cbM2"
      [] n = "M3" -> "cbM3"
      [] n = "M4" -> "cbM4"
      [] n = "S2" -> "cbS2"
      [] n = "S3" -> "cbS3"
      [] n = "S4" -> "cbS4"

CoinbaseTx == {Coinbase(n) : n \in AllNodes}
AllTx == OrdinaryTx \cup CoinbaseTx

(* btcwire's index of a coinbase input is 0xffffffff.  Integers here are   *)
(* 32-bit signed, so the largest of those stands for it: it is beyond      *)
(* every spent bitmap either way.                                          *)
MaxPrevOutIndex == 2^30 + (2^30 - 1)

OutPoint(h, i) == [hash |-> h, index |-> i]

TxIn(h) ==
    CASE h = "X" -> <<OutPoint("cbG", 0)>>
      [] h = "Y" -> <<OutPoint("X", 0)>>
      [] h = "Z" -> <<OutPoint("X", 1)>>
      [] OTHER -> <<OutPoint(ZeroHash, MaxPrevOutIndex)>>

TxOutCount(h) == IF h = "X" THEN 2 ELSE 1

MaxOutputs ==
    CHOOSE m \in {TxOutCount(h) : h \in AllTx} : \A h \in AllTx : TxOutCount(h) <= m

Unspent(h) == [j \in 1..TxOutCount(h) |-> FALSE]

(* A block as btcutil.Block shows it: height and transactions. *)
Block(h, txs) == [height |-> h, txs |-> txs]
NoBlock == Block(0 - 1, <<>>)
BlockOf(n) == Block(Height(n), blocks[n])

----------------------------------------------------------------------------
(* txData and the store *)

ErrNil == "nil"
TxShaMissing == "TxShaMissing"
ErrPanic == "panic: index out of range"
ErrSliceBounds == "panic: slice bounds out of range"
ErrStorage == "storage error"
ErrSideBlock == "unable to find block in side chain cache"

(* A Go slice is a reference: buf tells whose array the spent slice of an   *)
(* entry points into: none (nil slice), one made by this code, or the one  *)
(* storage handed out in its reply.                                        *)
NilBuf == "nil"
OwnBuf == "make"
StorageBuf == "storage"

MissingTxData(h) ==
    [hash |-> h, tx |-> NoTx, blockHeight |-> 0, spent |-> <<>>, buf |-> NilBuf,
     err |-> TxShaMissing]

EmptyStore == <<>>

DeleteKey(store, h) == [k \in (DOMAIN store) \ {h} |-> store[k]]

PutKey(store, h, txD) ==
    [k \in (DOMAIN store) \cup {h} |-> IF k = h THEN txD ELSE store[k]]

(* The running state of a store update: the store, whether the Go runtime  *)
(* has panicked on a slice index, and the flag writes that went into an    *)
(* array of storage.                                                       *)
Running(store) == [store |-> store, panic |-> FALSE, writes |-> <<>>]

SpentWrite(h, i, val) == [hash |-> h, index |-> i, val |-> val]

(* The inner loop over tx.TxIn of both mutators: set the spent flag of     *)
(* the origin output when the origin is a key of the store.                *)
RECURSIVE SetOriginSpent(_, _, _, _)
SetOriginSpent(st, ins, k, val) ==
    IF st.panic \/ k > Len(ins) THEN st
    ELSE LET originHash == ins[k].hash
             originIndex == ins[k].index
         IN IF originHash \in DOMAIN st.store
            THEN IF originIndex < Len(st.store[originHash].spent)
                 THEN SetOriginSpent(
                        [st EXCEPT !.store[originHash].spent[originIndex + 1] = val,
                                   !.writes =
                                      IF st.store[originHash].buf = StorageBuf
                                      THEN Append(@, SpentWrite(originHash, originIndex, val))
                                      ELSE @],
                        ins, k + 1, val)
                 ELSE [st EXCEPT !.panic = TRUE]
            ELSE SetOriginSpent(st, ins, k + 1, val)

(* The entry update without a new spent slice. *)
ConnectEntryKeepSpent(txD, txHash, blk) ==
    [txD EXCEPT !.tx = txHash, !.blockHeight = blk.height, !.err = ErrNil]

ConnectEntry(txD, txHash, blk) ==
    [txD EXCEPT !.tx = txHash, !.blockHeight = blk.height,
                !.spent = Unspent(txHash), !.buf = OwnBuf, !.err = ErrNil]

RECURSIVE ConnectFrom(_, _, _)
ConnectFrom(st, blk, i) ==
    IF st.panic \/ i > Len(blk.txs) THEN st
    ELSE LET txHash == blk.txs[i]
             upd == IF txHash \in DOMAIN st.store
                    THEN [st EXCEPT !.store[txHash] = ConnectEntry(@, txHash, blk)]
                    ELSE st
         IN ConnectFrom(SetOriginSpent(upd, TxIn(txHash), 1, TRUE), blk, i + 1)

(* connectTransactions without the loop that spends the origin outputs. *)
RECURSIVE ConnectEntriesFrom(_, _, _)
ConnectEntriesFrom(st, blk, i) ==
    IF i > Len(blk.txs) THEN st
    ELSE LET txHash == blk.txs[i]
         IN ConnectEntriesFrom(
              IF txHash \in DOMAIN st.store
              THEN [st EXCEPT !.store[txHash] = ConnectEntry(@, txHash, blk)]
              ELSE st, blk, i + 1)

connectTransactionsNoSpend(store, blk) == ConnectEntriesFrom(Running(store), blk, 1)

connectTransactions(store, blk) == ConnectFrom(Running(store), blk, 1)

RECURSIVE DisconnectFrom(_, _, _)
DisconnectFrom(st, blk, i) ==
    IF st.panic \/ i > Len(blk.txs) THEN st
    ELSE LET txHash == blk.txs[i]
             upd == [st EXCEPT !.store = DeleteKey(@, txHash)]
         IN DisconnectFrom(SetOriginSpent(upd, TxIn(txHash), 1, FALSE), blk, i + 1)

(* disconnectTransactions without the loop that unspends the origin outputs. *)
RECURSIVE DeleteEntriesFrom(_, _, _)
DeleteEntriesFrom(st, blk, i) ==
    IF i > Len(blk.txs) THEN st
    ELSE DeleteEntriesFrom([st EXCEPT !.store = DeleteKey(@, blk.txs[i])], blk, i + 1)

disconnectTransactionsNoUnspend(store, blk) == DeleteEntriesFrom(Running(store), blk, 1)

disconnectTransactions(store, blk) == DisconnectFrom(Running(store), blk, 1)

----------------------------------------------------------------------------
(* Storage (btcdb) and the chain graph, as the lookup code uses them.      *)

(* The ledger after one more block: its transactions exist, created at the *)
(* block's height with all outputs unspent, and the outputs its inputs     *)
(* refer to are spent.                                                     *)
RECURSIVE LedgerSpend(_, _, _)
LedgerSpend(led, ins, k) ==
    IF k > Len(ins) THEN led
    ELSE LET o == ins[k] IN
         IF o.hash \in DOMAIN led /\ led[o.hash].known
               /\ o.index < Len(led[o.hash].spent)
         THEN LedgerSpend([led EXCEPT ![o.hash].spent[o.index + 1] = TRUE], ins, k + 1)
         ELSE LedgerSpend(led, ins, k + 1)

RECURSIVE LedgerBlock(_, _, _)
LedgerBlock(led, blk, i) ==
    IF i > Len(blk.txs) THEN led
    ELSE LET h == blk.txs[i]
             created == [led EXCEPT ![h] = [known |-> TRUE, height |-> blk.height,
                                            spent |-> Unspent(h)]]
         IN LedgerBlock(LedgerSpend(created, TxIn(h), 1), blk, i + 1)

EmptyLedger == [h \in AllTx |-> [known |-> FALSE, height |-> 0, spent |-> <<>>]]

RECURSIVE LedgerPath(_, _, _)
LedgerPath(bl, path, i) ==
    IF i = 0 THEN EmptyLedger
    ELSE LedgerBlock(LedgerPath(bl, path, i - 1),
                     Block(Height(path[i]), bl[path[i]]), 1)

(* The ledger as seen after node n: replay of the path genesis..n. *)
LedgerAt(bl, n) == LedgerPath(bl, PathTo(n), Len(PathTo(n)))

(* db.FetchTxByShaList: one reply per requested hash, in order. *)
TxReply(h) ==
    IF h \in DOMAIN dbTx /\ dbTx[h].known
    THEN [sha |-> h, tx |-> h, height |-> dbTx[h].height,
          txSpent |-> dbTx[h].spent, err |-> ErrNil]
    ELSE [sha |-> h, tx |-> NoTx, height |-> 0, txSpent |-> <<>>,
          err |-> TxShaMissing]

FetchTxByShaList(list) == [i \in 1..Len(list) |-> TxReply(list[i])]

(* db.FetchBlockBySha *)
FetchBlockBySha(n) ==
    IF n \in dbFail THEN [block |-> NoBlock, err |-> ErrStorage]
    ELSE [block |-> BlockOf(n), err |-> ErrNil]

(* b.getPrevNodeFromNode: the parent node, loaded from storage on demand. *)
getPrevNodeFromNode(n) ==
    IF Parent(n) # NoNode /\ Parent(n) \in dbFail
    THEN [node |-> NoNode, err |-> ErrStorage]
    ELSE [node |-> Parent(n), err |-> ErrNil]

(* b.getReorganizeNodes: the fork point is the last node common to the     *)
(* paths of the tip and of the target.                                     *)
RECURSIVE CommonLen(_, _, _)
CommonLen(p, q, i) ==
    IF i < Len(p) /\ i < Len(q) /\ p[i + 1] = q[i + 1]
    THEN CommonLen(p, q, i + 1) ELSE i

Reverse(s) == [i \in 1..Len(s) |-> s[Len(s) + 1 - i]]

getReorganizeNodes(target) ==
    IF target = NoNode THEN [detach |-> <<>>, attach |-> <<>>]
    ELSE LET tipPath == PathTo(bestChain)
             tgtPath == PathTo(target)
             c == CommonLen(tipPath, tgtPath, 0)
         IN [detach |-> Reverse(SubSeq(tipPath, c + 1, Len(tipPath))),
             attach |-> SubSeq(tgtPath, c + 1, Len(tgtPath))]

----------------------------------------------------------------------------
(* fetchTxList *)

Event(e, n, l) == [ev |-> e, node |-> n, list |-> l]

(* What a lookup has produced so far; writes are the spent-flag writes     *)
(* that went into arrays of storage.                                       *)
FetchState(store, e, lg) == [store |-> store, err |-> e, log |-> lg, writes |-> <<>>]

After(fs, store, e, lg, writes) ==
    [store |-> store, err |-> e, log |-> lg, writes |-> fs.writes \o writes]

RECURSIVE MarkMissing(_, _, _)
MarkMissing(store, list, i) ==
    IF i > Len(list) THEN store
    ELSE MarkMissing(PutKey(store, list[i], MissingTxData(list[i])), list, i + 1)

(* The entry filled with the reply's own slice instead of a copy of it. *)
ReplyEntryAliased(txD, txReply) ==
    IF txReply.err = ErrNil
    THEN [txD EXCEPT !.err = txReply.err, !.tx = txReply.tx,
                     !.blockHeight = txReply.height, !.spent = txReply.txSpent,
                     !.buf = StorageBuf]
    ELSE [txD EXCEPT !.err = txReply.err]

(* Lines 135-136: make and copy give the entry an array of its own. *)
ReplyEntry(txD, txReply) ==
    IF txReply.err = ErrNil
    THEN [txD EXCEPT !.err = txReply.err, !.tx = txReply.tx,
                     !.blockHeight = txReply.height,
                     !.spent = [j \in 1..Len(txReply.txSpent) |-> txReply.txSpent[j]],
                     !.buf = OwnBuf]
    ELSE [txD EXCEPT !.err = txReply.err]

RECURSIVE FillReplies(_, _, _)
FillReplies(store, replies, i) ==
    IF i > Len(replies) THEN store
    ELSE LET txReply == replies[i] IN
         IF txReply.sha \notin DOMAIN store
         THEN FillReplies(store, replies, i + 1)
         ELSE FillReplies([store EXCEPT ![txReply.sha] = ReplyEntry(@, txReply)],
                          replies, i + 1)

(* Lines 104-138: the store as of the end of the main chain. *)
MainChainStore(list) ==
    FillReplies(MarkMissing(EmptyStore, list, 1), FetchTxByShaList(list), 1)

(* The detach loop going on to the next node when a block cannot be read. *)
RECURSIVE DetachLoopSkipFailed(_, _, _)
DetachLoopSkipFailed(fs, detachNodes, i) ==
    IF fs.err # ErrNil \/ i > Len(detachNodes) THEN fs
    ELSE LET n == detachNodes[i]
             got == FetchBlockBySha(n)
             lg1 == Append(fs.log, Event("FetchBlockBySha", n, <<>>))
         IN IF got.err # ErrNil
            THEN DetachLoopSkipFailed(After(fs, fs.store, ErrNil, lg1, <<>>),
                                      detachNodes, i + 1)
            ELSE LET r == disconnectTransactions(fs.store, got.block)
                     lg2 == Append(lg1, Event("disconnectTransactions", n, <<>>))
                 IN DetachLoopSkipFailed(
                       After(fs, r.store, IF r.panic THEN ErrPanic ELSE ErrNil,
                             lg2, r.writes),
                       detachNodes, i + 1)

(* The detach loop walking the list from its back. *)
RECURSIVE DetachLoopOldestFirst(_, _, _)
DetachLoopOldestFirst(fs, detachNodes, i) ==
    IF fs.err # ErrNil \/ i > Len(detachNodes) THEN fs
    ELSE LET n == detachNodes[Len(detachNodes) + 1 - i]
             got == FetchBlockBySha(n)
             lg1 == Append(fs.log, Event("FetchBlockBySha", n, <<>>))
         IN IF got.err # ErrNil
            THEN After(fs, EmptyStore, got.err, lg1, <<>>)
            ELSE LET r == disconnectTransactions(fs.store, got.block)
                     lg2 == Append(lg1, Event("disconnectTransactions", n, <<>>))
                 IN DetachLoopOldestFirst(
                       After(fs, r.store, IF r.panic THEN ErrPanic ELSE ErrNil,
                             lg2, r.writes),
                       detachNodes, i + 1)

RECURSIVE DetachLoop(_, _, _)
DetachLoop(fs, detachNodes, i) ==
    IF fs.err # ErrNil \/ i > Len(detachNodes) THEN fs
    ELSE LET n == detachNodes[i]
             got == FetchBlockBySha(n)
             lg1 == Append(fs.log, Event("FetchBlockBySha", n, <<>>))
         IN IF got.err # ErrNil
            THEN After(fs, EmptyStore, got.err, lg1, <<>>)
            ELSE LET r == disconnectTransactions(fs.store, got.block)
                     lg2 == Append(lg1, Event("disconnectTransactions", n, <<>>))
                 IN DetachLoop(After(fs, r.store, IF r.panic THEN ErrPanic ELSE ErrNil,
                                     lg2, r.writes),
                               detachNodes, i + 1)

RECURSIVE AttachLoop(_, _, _)
AttachLoop(fs, attachNodes, i) ==
    IF fs.err # ErrNil \/ i > Len(attachNodes) THEN fs
    ELSE LET n == attachNodes[i]
             lg1 == Append(fs.log, Event("blockCache", n, <<>>))
         IN IF n \notin blockCache
            THEN After(fs, EmptyStore, ErrSideBlock, lg1, <<>>)
            ELSE LET r == connectTransactions(fs.store, BlockOf(n))
                     lg2 == Append(lg1, Event("connectTransactions", n, <<>>))
                 IN AttachLoop(After(fs, r.store, IF r.panic THEN ErrPanic ELSE ErrNil,
                                     lg2, r.writes),
                               attachNodes, i + 1)

(* The shortcut test without the comparison of the parent with the tip. *)
ExtendsMainChainNoTip(prevNode) == bestChain = NoNode

ExtendsMainChain(prevNode) ==
    bestChain = NoNode \/ (prevNode # NoNode /\ prevNode = bestChain)

(* fetchTxList resolving the fork against the node itself rather than its  *)
(* parent.                                                                 *)
fetchTxListOfNode(n, list) ==
    LET prev == getPrevNodeFromNode(n)
        lg0 == <<Event("getPrevNodeFromNode", n, <<>>)>>
    IN IF prev.err # ErrNil THEN FetchState(EmptyStore, prev.err, lg0)
       ELSE LET prevNode == prev.node
                base == MainChainStore(list)
                lg1 == Append(lg0, Event("FetchTxByShaList", NoNode, list))
            IN IF ExtendsMainChain(prevNode) THEN FetchState(base, ErrNil, lg1)
               ELSE LET reorg == getReorganizeNodes(n)
                        lg2 == Append(lg1, Event("getReorganizeNodes", n, <<>>))
                        detached == DetachLoop(FetchState(base, ErrNil, lg2),
                                               reorg.detach, 1)
                    IN IF detached.err # ErrNil THEN detached
                       ELSE IF Len(reorg.attach) = 0 THEN detached
                       ELSE AttachLoop(detached, reorg.attach, 1)

fetchTxList(n, list) ==
    LET prev == getPrevNodeFromNode(n)
        lg0 == <<Event("getPrevNodeFromNode", n, <<>>)>>
    IN IF prev.err # ErrNil THEN FetchState(EmptyStore, prev.err, lg0)
       ELSE LET prevNode == prev.node
                base == MainChainStore(list)
                lg1 == Append(lg0, Event("FetchTxByShaList", NoNode, list))
            IN IF ExtendsMainChain(prevNode) THEN FetchState(base, ErrNil, lg1)
               ELSE LET reorg == getReorganizeNodes(prevNode)
                        lg2 == Append(lg1, Event("getReorganizeNodes", prevNode, <<>>))
                        detached == DetachLoop(FetchState(base, ErrNil, lg2),
                                               reorg.detach, 1)
                    IN IF detached.err # ErrNil THEN detached
                       ELSE IF Len(reorg.attach) = 0 THEN detached
                       ELSE AttachLoop(detached, reorg.attach, 1)

----------------------------------------------------------------------------
(* fetchInputTransactions *)

InFlight(blk) == SeqToSet(blk.txs)

(* The in-flight entry without the height of the node. *)
InFlightEntryNoHeight(h, n) ==
    [hash |-> h, tx |-> h, blockHeight |-> 0, spent |-> Unspent(h),
     buf |-> OwnBuf, err |-> ErrNil]

InFlightEntry(h, n) ==
    [hash |-> h, tx |-> h, blockHeight |-> Height(n), spent |-> Unspent(h),
     buf |-> OwnBuf, err |-> ErrNil]

(* The input loop putting every origin hash on the needed list. *)
RECURSIVE CollectInputsAllNeeded(_, _, _, _, _)
CollectInputsAllNeeded(acc, ins, k, blk, n) ==
    IF k > Len(ins) THEN acc
    ELSE LET originHash == ins[k].hash IN
         CollectInputsAllNeeded(
            [panic |-> acc.panic,
             store |-> PutKey(acc.store, originHash,
                              IF originHash \in SeqToSet(blk.txs)
                              THEN [hash |-> originHash, tx |-> originHash,
                                    blockHeight |-> Height(n),
                                    spent |-> Unspent(originHash), buf |-> OwnBuf,
                                    err |-> ErrNil]
                              ELSE MissingTxData(originHash)),
             needed |-> Append(acc.needed, originHash)],
            ins, k + 1, blk, n)

(* Lines 214-232: the inputs of one transaction. *)
RECURSIVE CollectInputs(_, _, _, _, _)
CollectInputs(acc, ins, k, blk, n) ==
    IF k > Len(ins) THEN acc
    ELSE LET originHash == ins[k].hash IN
         IF originHash \in InFlight(blk)
         THEN CollectInputs([acc EXCEPT !.store = PutKey(@, originHash,
                                                  InFlightEntry(originHash, n))],
                            ins, k + 1, blk, n)
         ELSE CollectInputs([acc EXCEPT !.store = PutKey(@, originHash,
                                                  MissingTxData(originHash)),
                                        !.needed = Append(@, originHash)],
                            ins, k + 1, blk, n)

(* Lines 213-233: every transaction of the block from index i on.  The     *)
(* slice expression Transactions[i-1:] (1-based i) panics when the block   *)
(* has fewer than i - 1 transactions: for the loop start, a block with no  *)
(* transaction at all.                                                     *)
RECURSIVE CollectTransactions(_, _, _, _)
CollectTransactions(acc, blk, i, n) ==
    IF i - 1 > Len(blk.txs) THEN [acc EXCEPT !.panic = TRUE]
    ELSE IF i > Len(blk.txs) THEN acc
    ELSE CollectTransactions(CollectInputs(acc, TxIn(blk.txs[i]), 1, blk, n),
                             blk, i + 1, n)

(* The loop skips Transactions[0], the coinbase. *)
FirstInputTx == 2

(* The merge that hands back the fetched store alone. *)
MergeStoresNeededOnly(store, neededStore) == neededStore

(* Lines 243-245: every entry of the fetched store goes under its hash. *)
MergeStores(store, neededStore) ==
    LET hs == {neededStore[k].hash : k \in DOMAIN neededStore}
    IN [h \in (DOMAIN store) \cup hs |->
          IF h \in hs
          THEN neededStore[CHOOSE k \in DOMAIN neededStore : neededStore[k].hash = h]
          ELSE store[h]]

fetchInputTransactions(n, blk) ==
    LET acc == CollectTransactions([store |-> EmptyStore, needed |-> <<>>,
                                    panic |-> FALSE],
                                   blk, FirstInputTx, n)
        got == fetchTxList(n, acc.needed)
        lg == <<Event("fetchTxList", n, acc.needed)>> \o got.log
    IN IF acc.panic THEN FetchState(EmptyStore, ErrSliceBounds, <<>>)
       ELSE IF got.err # ErrNil THEN After(got, EmptyStore, got.err, lg, <<>>)
       ELSE After(got, MergeStores(acc.store, got.store), ErrNil, lg, <<>>)

----------------------------------------------------------------------------
(* The chains the program can be in. *)

Injective(s) == \A i, j \in 1..Len(s) : s[i] = s[j] => i = j

(* The non-coinbase parts a block can have: up to k distinct transactions. *)
RECURSIVE BodiesUpTo(_)
BodiesUpTo(k) ==
    IF k = 0 THEN {<<>>}
    ELSE LET shorter == BodiesUpTo(k - 1)
         IN shorter \cup {Append(s, h) : s \in {t \in shorter : Len(t) = k - 1},
                                         h \in OrdinaryTx}

Bodies(k) == {s \in BodiesUpTo(k) : Injective(s)}

Leaves == {"M3", "S3"}

(* The M branch is the best chain once there is one. *)
BestTip == "M3"

(* No transaction occurs twice on one path from the genesis block. *)
NoDuplicates(bl) ==
    \A leaf \in Leaves : \A m1, m2 \in SeqToSet(PathTo(leaf)) :
        \A i \in 1..Len(bl[m1]) : \A j \in 1..Len(bl[m2]) :
            bl[m1][i] = bl[m2][j] => (m1 = m2 /\ i = j)

(* The blocks of the best chain were connected after validation: every     *)
(* input of a non-coinbase transaction refers to an existing, unspent      *)
(* output of an earlier transaction.                                       *)
RECURSIVE InputsSpendable(_, _, _)
InputsSpendable(led, ins, k) ==
    IF k > Len(ins) THEN TRUE
    ELSE /\ led[ins[k].hash].known
         /\ ins[k].index < Len(led[ins[k].hash].spent)
         /\ ~led[ins[k].hash].spent[ins[k].index + 1]
         /\ InputsSpendable(LedgerSpend(led, <<ins[k]>>, 1), ins, k + 1)

RECURSIVE BlockValid(_, _, _)
BlockValid(led, blk, i) ==
    IF i > Len(blk.txs) THEN TRUE
    ELSE /\ IF i = 1 THEN TRUE ELSE InputsSpendable(led, TxIn(blk.txs[i]), 1)
         /\ BlockValid(LedgerBlock(led, Block(blk.height, <<blk.txs[i]>>), 1),
                       blk, i + 1)

MainChainValid(bl, tip) ==
    \A i \in 1..Len(PathTo(tip)) :
        BlockValid(LedgerPath(bl, PathTo(tip), i - 1),
                   Block(Height(PathTo(tip)[i]), bl[PathTo(tip)[i]]), 1)

WithCoinbase(body) ==
    [n \in TreeNodes |-> IF n = Genesis THEN <<Coinbase(n)>>
                         ELSE <<Coinbase(n)>> \o body[n]]

SideNodes(tip) == TreeNodes \ SeqToSet(PathTo(tip))

(* Before the first block is processed there is no best chain and nothing  *)
(* in storage.                                                             *)
InitNoChain ==
    /\ bestChain = NoNode
    /\ blocks = [n \in TreeNodes |-> <<Coinbase(n)>>]
    /\ blockCache = {}
    /\ dbFail = {}
    /\ dbTx = EmptyLedger

(* At most one thing is wrong around the lookup: one side block is not in  *)
(* the cache, or one block of the best chain cannot be read.               *)
NoFault == [missing |-> {}, failing |-> {}]

Faults(tip) ==
    {NoFault}
    \cup {[missing |-> {n}, failing |-> {}] : n \in SideNodes(tip)}
    \cup {[missing |-> {}, failing |-> {n}] : n \in SeqToSet(PathTo(tip)) \ {Genesis}}

RECURSIVE TxCount(_, _)
TxCount(bl, ns) ==
    IF ns = {} THEN 0
    ELSE LET n == CHOOSE m \in ns : TRUE
         IN (Len(bl[n]) - 1) + TxCount(bl, ns \ {n})

InitChain ==
    /\ bestChain = BestTip
    /\ \E body \in [TreeNodes \ {Genesis} -> Bodies(MaxBlockTx)] :
          blocks = WithCoinbase(body)
    /\ NoDuplicates(blocks)
    /\ MainChainValid(blocks, bestChain)
    /\ \E fault \in Faults(bestChain) :
          /\ fault = NoFault \/ TxCount(blocks, TreeNodes) <= MaxFaultTx
          /\ blockCache = SideNodes(bestChain) \ fault.missing
          /\ dbFail = fault.failing
    /\ dbTx = LedgerAt(blocks, bestChain)

Init ==
    /\ InitNoChain \/ InitChain
    /\ op = "idle"
    /\ node = NoNode
    /\ txList = <<>>
    /\ block = NoBlock
    /\ preStore = EmptyStore
    /\ txStore = EmptyStore
    /\ err = ErrNil
    /\ log = <<>>

----------------------------------------------------------------------------
(* The calls. *)

HashOrder == <<"X", "Y", "Z">>

(* The hash lists handed to fetchTxList directly: up to MaxList distinct   *)
(* hashes, in one order.  Lists with a hash repeated reach fetchTxList     *)
(* from fetchInputTransactions.                                            *)
HashRank(h) == CHOOSE i \in 1..Len(HashOrder) : HashOrder[i] = h

RECURSIVE ListsUpTo(_)
ListsUpTo(k) ==
    IF k = 0 THEN {<<>>}
    ELSE LET shorter == ListsUpTo(k - 1)
         IN shorter \cup {Append(s, h) : s \in {t \in shorter : Len(t) = k - 1},
                                         h \in OrdinaryTx}

HashLists ==
    {l \in ListsUpTo(MaxList) :
        \A i, j \in 1..Len(l) : i < j => HashRank(l[i]) < HashRank(l[j])}

(* Nodes a lookup is made for: the first block when there is no best       *)
(* chain, otherwise any node that has a parent.                            *)
CallNodes ==
    IF bestChain = NoNode THEN {Genesis} ELSE AllNodes \ {Genesis}

(* The block validated at a node: its own, or any block for a candidate.   *)
(* fetchInputTransactions does not check its block, so a candidate may     *)
(* also be a block without any transaction.                                *)
CallBlocks(n) ==
    IF n \in TreeNodes /\ bestChain # NoNode
    THEN {BlockOf(n)}
    ELSE {Block(Height(n), <<Coinbase(n)>> \o b) : b \in Bodies(MaxCallTx)}
         \cup {Block(Height(n), <<>>)}

(* Storage after spent-flag writes into its own arrays. *)
RECURSIVE StorageAfter(_, _, _)
StorageAfter(db, writes, i) ==
    IF i > Len(writes) THEN db
    ELSE StorageAfter([db EXCEPT ![writes[i].hash].spent[writes[i].index + 1] =
                                     writes[i].val],
                      writes, i + 1)

FetchTxList(n, l) ==
    /\ op = "idle"
    /\ LET r == fetchTxList(n, l) IN
         /\ txStore' = r.store
         /\ err' = r.err
         /\ log' = r.log
         /\ dbTx' = StorageAfter(dbTx, r.writes, 1)
    /\ op' = "fetchTxList"
    /\ node' = n
    /\ txList' = l
    /\ UNCHANGED <<block, preStore>>
    /\ UNCHANGED <<blocks, bestChain, blockCache, dbFail>>

FetchInputTransactions(n, b) ==
    /\ op = "idle"
    /\ LET r == fetchInputTransactions(n, b) IN
         /\ txStore' = r.store
         /\ err' = r.err
         /\ log' = r.log
         /\ dbTx' = StorageAfter(dbTx, r.writes, 1)
    /\ op' = "fetchInputTransactions"
    /\ node' = n
    /\ block' = b
    /\ UNCHANGED <<txList, preStore>>
    /\ UNCHANGED <<blocks, bestChain, blockCache, dbFail>>

(* The caller validating the block marks, in the store it was handed, an   *)
(* output that an input of the block refers to as spent.                   *)
CallerSpends(h, i) ==
    /\ op = "fetchInputTransactions"
    /\ err = ErrNil
    /\ OutPoint(h, i) \in UNION {SeqToSet(TxIn(block.txs[k])) :
                                    k \in FirstInputTx..Len(block.txs)}
    /\ h \in DOMAIN txStore
    /\ txStore[h].err = ErrNil
    /\ i < Len(txStore[h].spent)
    /\ ~txStore[h].spent[i + 1]
    /\ txStore' = [txStore EXCEPT ![h].spent[i + 1] = TRUE]
    /\ dbTx' = IF txStore[h].buf = StorageBuf
               THEN StorageAfter(dbTx, <<SpentWrite(h, i, TRUE)>>, 1)
               ELSE dbTx
    /\ op' = "callerSpends"
    /\ UNCHANGED <<node, txList, block, preStore, err, log>>
    /\ UNCHANGED <<blocks, bestChain, blockCache, dbFail>>

(* The caller is done with the result. *)
Return ==
    /\ op \in {"fetchTxList", "fetchInputTransactions", "callerSpends"}
    /\ op' = "idle"
    /\ node' = NoNode
    /\ txList' = <<>>
    /\ block' = NoBlock
    /\ txStore' = EmptyStore
    /\ err' = ErrNil
    /\ log' = <<>>
    /\ UNCHANGED preStore
    /\ UNCHANGED chainVars

(* The caller makes one call at a time: a new call starts when the last    *)
(* one has been returned.                                                  *)
Next ==
    \/ op = "idle" /\ \E n \in CallNodes : \E l \in HashLists : FetchTxList(n, l)
    \/ op = "idle" /\ \E n \in CallNodes : \E b \in CallBlocks(n) :
                          FetchInputTransactions(n, b)
    \/ op # "idle" /\ \E h \in DOMAIN txStore : \E i \in 0..(MaxOutputs - 1) :
                          CallerSpends(h, i)
    \/ Return

Spec == Init /\ [][Next]_vars

----------------------------------------------------------------------------
(* The view mutators on their own: connectTransactions and then            *)
(* disconnectTransactions of one block on an arbitrary store.              *)

StoreHashes == {Coinbase(Genesis)} \cup OrdinaryTx

StoreHeight == Height("M1")

KnownTxData(h, bits) ==
    [hash |-> h, tx |-> h, blockHeight |-> StoreHeight, spent |-> bits,
     buf |-> OwnBuf, err |-> ErrNil]

EntryChoices(h) ==
    {MissingTxData(h)} \cup {KnownTxData(h, bits) : bits \in [1..TxOutCount(h) -> BOOLEAN]}

Stores ==
    UNION {{st \in [ks -> UNION {EntryChoices(h) : h \in ks}] :
                \A h \in ks : st[h].hash = h} : ks \in SUBSET StoreHashes}

MutatorBlocks ==
    {Block(Height("M2"), <<Coinbase("M2")>> \o b) : b \in Bodies(MaxCallTx)}

InitMutators ==
    /\ InitNoChain
    /\ op = "idle"
    /\ node = NoNode
    /\ txList = <<>>
    /\ block \in MutatorBlocks
    /\ preStore \in Stores
    /\ txStore = preStore
    /\ err = ErrNil
    /\ log = <<>>

Connect ==
    /\ op = "idle"
    /\ LET r == connectTransactions(txStore, block) IN
         /\ txStore' = r.store
         /\ err' = IF r.panic THEN ErrPanic ELSE ErrNil
    /\ op' = "connected"
    /\ UNCHANGED <<node, txList, block, preStore, log>>
    /\ UNCHANGED chainVars

Disconnect ==
    /\ op = "connected"
    /\ err = ErrNil
    /\ LET r == disconnectTransactions(txStore, block) IN
         /\ txStore' = r.store
         /\ err' = IF r.panic THEN ErrPanic ELSE ErrNil
    /\ op' = "disconnected"
    /\ UNCHANGED <<node, txList, block, preStore, log>>
    /\ UNCHANGED chainVars

(* disconnectTransactions of the block on the store as handed in. *)
Undo ==
    /\ op = "idle"
    /\ LET r == disconnectTransactions(txStore, block) IN
         /\ txStore' = r.store
         /\ err' = IF r.panic THEN ErrPanic ELSE ErrNil
    /\ op' = "undone"
    /\ UNCHANGED <<node, txList, block, preStore, log>>
    /\ UNCHANGED chainVars

NextMutators == Connect \/ Disconnect \/ Undo

SpecMutators == InitMutators /\ [][NextMutators]_vars

----------------------------------------------------------------------------
(* What the claims speak about. *)

Returned(o) == op = o /\ err = ErrNil

Requested == SeqToSet(txList)

HasStatus(txD) == txD.err \in {ErrNil, TxShaMissing}

(* The ledger the call's node sees: the replay of genesis .. its parent. *)
LedgerSeen == IF Parent(node) = NoNode THEN EmptyLedger
              ELSE LedgerAt(blocks, Parent(node))

CreatedIn(h, ns) == \E n \in ns : h \in SeqToSet(blocks[n])

(* The outpoints the inputs of the transactions txs[from..] refer to. *)
InputsOf(txs, from) ==
    UNION {SeqToSet(TxIn(txs[i])) : i \in from..Len(txs)}

(* The output indexes of h that the inputs of block n refer to. *)
SpentBy(n, h) == {o.index : o \in {p \in InputsOf(blocks[n], 1) : p.hash = h}}

OnlySpent(h, i) == [j \in 1..TxOutCount(h) |-> j = i + 1]

LogHas(evs) == \E i \in 1..Len(log) : log[i].ev \in evs

Detached == IF bestChain = NoNode \/ Parent(node) = NoNode THEN <<>>
            ELSE getReorganizeNodes(Parent(node)).detach

Attached == IF bestChain = NoNode \/ Parent(node) = NoNode THEN <<>>
            ELSE getReorganizeNodes(Parent(node)).attach

----------------------------------------------------------------------------
(* C1: a successful fetchTxList returns a store whose keys are exactly the *)
(* requested hashes, each entry carrying a status (known or not found).    *)
C1_KeySetIsRequestedSet ==
    Returned("fetchTxList") =>
        /\ DOMAIN txStore = Requested
        /\ \A h \in DOMAIN txStore : HasStatus(txStore[h])

(* C2: the store fetchTxList returns for a node reports every requested    *)
(* transaction exactly as the replay of the blocks from genesis to the     *)
(* node's parent does: known with that height and those spent flags, or    *)
(* not known.                                                              *)
C2_ViewIsReplayOfPath ==
    Returned("fetchTxList") =>
        \A h \in Requested :
            IF LedgerSeen[h].known
            THEN /\ h \in DOMAIN txStore
                 /\ txStore[h].err = ErrNil
                 /\ txStore[h].blockHeight = LedgerSeen[h].height
                 /\ txStore[h].spent = LedgerSeen[h].spent
            ELSE h \in DOMAIN txStore => txStore[h].err # ErrNil

(* C3: a transaction created only on one of the two branches that fork at  *)
(* M1, looked up from a node of the other branch, has an entry with status *)
(* not found, whichever branch is the best chain.                          *)
BranchM == {"M2", "M3"}
BranchS == {"S2", "S3"}
NodesOnM == {"M2", "M3", "M4"}
NodesOnS == {"S2", "S3", "S4"}

IsolatedFrom(branchA, branchB, nodesB) ==
    (Returned("fetchTxList") /\ node \in nodesB) =>
        \A h \in Requested :
            (CreatedIn(h, branchA) /\ ~CreatedIn(h, branchB)) =>
                (h \in DOMAIN txStore /\ txStore[h].err = TxShaMissing)

C3_BranchIsolation ==
    /\ IsolatedFrom(BranchM, BranchS, NodesOnS)
    /\ IsolatedFrom(BranchS, BranchM, NodesOnM)

(* C4 as stated: X is on the main chain with every output unspent, side    *)
(* block SB spends output i of X; then the lookup of X from SB's node      *)
(* reports exactly output i spent and the lookup from the main-chain tip   *)
(* reports every output unspent.                                           *)
SideSpend(h, sb, i) ==
    /\ bestChain # NoNode
    /\ sb \in SideNodes(bestChain)
    /\ dbTx[h].known
    /\ dbTx[h].spent = Unspent(h)
    /\ SpentBy(sb, h) = {i}

C4_SideSpendSeenFromSideBlock ==
    \A h \in OrdinaryTx : \A sb \in TreeNodes : \A i \in 0..(TxOutCount(h) - 1) :
        (SideSpend(h, sb, i) /\ Returned("fetchTxList") /\ h \in Requested) =>
            /\ node = sb =>
                  (h \in DOMAIN txStore /\ txStore[h].spent = OnlySpent(h, i))
            /\ node = bestChain =>
                  (h \in DOMAIN txStore /\ txStore[h].spent = Unspent(h))

(* C4 amended: fetchTxList resolves the view as of the node's parent.  If  *)
(* X is created on the main chain at or before the point where SB's branch *)
(* forks off, no block of the best chain and no ancestor of SB spends an   *)
(* output of X, and side block SB spends output i of X, then the lookup of *)
(* X from a node whose parent is SB reports exactly output i spent, while  *)
(* the lookup from SB's own node and the lookup from a node whose parent   *)
(* is the main-chain tip report every output unspent.                      *)
ForkPoint(n) ==
    PathTo(n)[CommonLen(PathTo(bestChain), PathTo(n), 0)]

VisibleUnspent(h, sb) ==
    /\ LedgerAt(blocks, ForkPoint(sb))[h].known
    /\ LedgerAt(blocks, Parent(sb))[h].known
    /\ LedgerAt(blocks, Parent(sb))[h].spent = Unspent(h)

KnownWith(h, bits) ==
    /\ h \in DOMAIN txStore
    /\ txStore[h].err = ErrNil
    /\ txStore[h].spent = bits

C4_SideSpendSeenAfterSideBlock ==
    \A h \in OrdinaryTx : \A sb \in TreeNodes : \A i \in 0..(TxOutCount(h) - 1) :
        (Returned("fetchTxList") /\ h \in Requested
            /\ SideSpend(h, sb, i) /\ VisibleUnspent(h, sb)) =>
            /\ Parent(node) = sb => KnownWith(h, OnlySpent(h, i))
            /\ node = sb => KnownWith(h, Unspent(h))
            /\ Parent(node) = bestChain => KnownWith(h, Unspent(h))

C4_Witness ==
    \E h \in OrdinaryTx : \E sb \in TreeNodes : \E i \in 0..(TxOutCount(h) - 1) :
        /\ SideSpend(h, sb, i)
        /\ VisibleUnspent(h, sb)
        /\ Returned("fetchTxList")
        /\ h \in Requested
        /\ Parent(node) = sb
        /\ Detached # <<>>
        /\ KnownWith(h, OnlySpent(h, i))

(* C5: when a side-branch node is resolved with blocks to detach and       *)
(* blocks to attach, a requested transaction created only in a detached    *)
(* block is absent from the store, and a requested transaction created in  *)
(* an attached block is known with that block's height.                    *)
C5_DetachedAbsentAttachedKnown ==
    (Returned("fetchTxList") /\ Detached # <<>> /\ Attached # <<>>) =>
        \A h \in Requested :
            /\ (CreatedIn(h, SeqToSet(Detached))
                  /\ ~CreatedIn(h, TreeNodes \ SeqToSet(Detached)))
                  => h \notin DOMAIN txStore
            /\ \A sb \in SeqToSet(Attached) :
                  CreatedIn(h, {sb}) =>
                      /\ h \in DOMAIN txStore
                      /\ txStore[h].err = ErrNil
                      /\ txStore[h].blockHeight = Height(sb)

(* C6 as stated: for any store and any block B, connect then disconnect of *)
(* B leaves no entry for B's own transactions, every spent flag referenced *)
(* by B's inputs at its value before the connect, and every other entry    *)
(* as it was.                                                              *)
OwnEntriesAbsent == \A i \in 1..Len(block.txs) : block.txs[i] \notin DOMAIN txStore

ReferencedFlagsRestored ==
    \A o \in InputsOf(block.txs, 1) :
        o.hash \in DOMAIN txStore =>
            txStore[o.hash].spent[o.index + 1] = preStore[o.hash].spent[o.index + 1]

OtherEntriesKept ==
    \A h \in DOMAIN preStore :
        (h \notin InFlight(block) /\ h \notin {o.hash : o \in InputsOf(block.txs, 1)})
            => (h \in DOMAIN txStore /\ txStore[h] = preStore[h])

C6_ConnectThenDisconnectRestores ==
    (op = "disconnected" /\ err = ErrNil) =>
        /\ OwnEntriesAbsent
        /\ ReferencedFlagsRestored
        /\ OtherEntriesKept

(* C6 amended: the inverse law holds for a block B that spends only        *)
(* unspent outputs: if every input of B refers either to an output of a    *)
(* transaction earlier in B or to an output that, when its transaction has *)
(* an entry in the store, is known and unspent there, then connect         *)
(* followed by disconnect of B completes and leaves exactly the entries of *)
(* the store that are not B's own transactions, each as it was before the  *)
(* connect.                                                                *)
PositionIn(txs, h) == CHOOSE i \in 1..Len(txs) : txs[i] = h

InputSpendable(o, i) ==
    IF o.hash \in InFlight(block)
    THEN PositionIn(block.txs, o.hash) < i /\ o.index < TxOutCount(o.hash)
    ELSE o.hash \in DOMAIN preStore =>
            /\ preStore[o.hash].err = ErrNil
            /\ o.index < Len(preStore[o.hash].spent)
            /\ ~preStore[o.hash].spent[o.index + 1]

SpendsOnlyUnspent ==
    \A i \in 1..Len(block.txs) :
        \A o \in SeqToSet(TxIn(block.txs[i])) : InputSpendable(o, i)

C6_InverseOnUnspentInputs ==
    (op \in {"connected", "disconnected"} /\ SpendsOnlyUnspent) =>
        /\ err = ErrNil
        /\ op = "disconnected" =>
              /\ OwnEntriesAbsent
              /\ ReferencedFlagsRestored
              /\ txStore = [h \in (DOMAIN preStore) \ InFlight(block) |-> preStore[h]]

C6_Witness ==
    /\ op = "disconnected"
    /\ err = ErrNil
    /\ SpendsOnlyUnspent
    /\ \E o \in InputsOf(block.txs, 1) :
          o.hash \in DOMAIN txStore /\ ~txStore[o.hash].spent[o.index + 1]
    /\ \E o \in InputsOf(block.txs, 2) : o.hash \in InFlight(block)
    /\ \E i \in 1..Len(block.txs) : block.txs[i] \in DOMAIN preStore

(* C8: when there is no best chain or the node's parent is the best-chain  *)
(* tip, fetchTxList makes no call to the fork resolver, fetches no block   *)
(* from storage or the side-block cache, applies no connect or disconnect, *)
(* and what it returns is the storage baseline.                            *)
BaselineEntry(h) ==
    IF dbTx[h].known
    THEN [hash |-> h, tx |-> h, blockHeight |-> dbTx[h].height,
          spent |-> dbTx[h].spent, buf |-> OwnBuf, err |-> ErrNil]
    ELSE [hash |-> h, tx |-> NoTx, blockHeight |-> 0, spent |-> <<>>,
          buf |-> NilBuf, err |-> TxShaMissing]

PastBaseline ==
    {"getReorganizeNodes", "FetchBlockBySha", "blockCache",
     "connectTransactions", "disconnectTransactions"}

C8_MainChainShortcut ==
    (op = "fetchTxList" /\ (bestChain = NoNode \/ Parent(node) = bestChain)) =>
        /\ ~LogHas(PastBaseline)
        /\ err = ErrNil => txStore = [h \in Requested |-> BaselineEntry(h)]

C8_Witness ==
    /\ Returned("fetchTxList")
    /\ bestChain # NoNode
    /\ Parent(node) = bestChain
    /\ \E h \in Requested : txStore[h].err = ErrNil
    /\ \E h \in Requested : txStore[h].err = TxShaMissing

(* C9: in fetchInputTransactions a hash referenced by an input that is the *)
(* hash of a transaction of the same block is never on the needed list: no *)
(* fetchTxList request and no storage lookup is made for it.               *)
C9_InFlightNeverRequested ==
    op = "fetchInputTransactions" =>
        \A i \in 1..Len(log) :
            log[i].ev \in {"fetchTxList", "FetchTxByShaList"} =>
                SeqToSet(log[i].list) \cap InFlight(block) = {}

C9_Witness ==
    /\ Returned("fetchInputTransactions")
    /\ \E o \in InputsOf(block.txs, 2) :
          /\ o.hash \in InFlight(block)
          /\ o.hash \in DOMAIN txStore
    /\ \E i \in 1..Len(log) : log[i].ev = "FetchTxByShaList" /\ log[i].list # <<>>

(* C10: a successful fetchInputTransactions returns a store whose keys are *)
(* exactly the hashes referenced by inputs of the block's non-coinbase     *)
(* transactions, each with a status, on the main chain and off it; the     *)
(* coinbase's input contributes no key.                                    *)
ReferencedHashes == {o.hash : o \in InputsOf(block.txs, 2)}

C10_KeysAreReferencedInputs ==
    Returned("fetchInputTransactions") =>
        /\ DOMAIN txStore = ReferencedHashes
        /\ \A h \in DOMAIN txStore : HasStatus(txStore[h])
        /\ ZeroHash \notin DOMAIN txStore

C10_Witness ==
    /\ Returned("fetchInputTransactions")
    /\ Detached # <<>>
    /\ Attached # <<>>
    /\ \E h \in DOMAIN txStore :
          /\ txStore[h].err = ErrNil
          /\ h \notin InFlight(block)
          /\ \E sb \in SeqToSet(Attached) : txStore[h].blockHeight = Height(sb)

----------------------------------------------------------------------------
(* Helpers for the failure claims. *)

PrevOk == getPrevNodeFromNode(node).err = ErrNil

OffShortcut == bestChain # NoNode /\ Parent(node) # NoNode /\ Parent(node) # bestChain

(* Position of the first element of s that is in set, 0 when none is. *)
FirstIn(s, set) ==
    IF \E i \in 1..Len(s) : s[i] \in set
    THEN CHOOSE i \in 1..Len(s) : s[i] \in set /\ \A j \in 1..(i - 1) : s[j] \notin set
    ELSE 0

(* The nodes of the events of kind e in the log, in order. *)
RECURSIVE LogNodes(_, _)
LogNodes(lg, e) ==
    IF lg = <<>> THEN <<>>
    ELSE IF lg[Len(lg)].ev = e
         THEN Append(LogNodes(SubSeq(lg, 1, Len(lg) - 1), e), lg[Len(lg)].node)
         ELSE LogNodes(SubSeq(lg, 1, Len(lg) - 1), e)

LastEvent == log[Len(log)]

(* C11: when a node of the attach list has no block in the side-block      *)
(* cache (and every storage read works), fetchTxList returns the           *)
(* missing-side-block error and no store, whatever was detached and        *)
(* attached before; the cache is asked once for that node and nothing      *)
(* follows the miss.                                                       *)
C11_CacheMissIsReturnedError ==
    (op = "fetchTxList" /\ OffShortcut /\ dbFail = {}
        /\ FirstIn(Attached, AllNodes \ blockCache) > 0) =>
        LET k == FirstIn(Attached, AllNodes \ blockCache) IN
        /\ err = ErrSideBlock
        /\ txStore = EmptyStore
        /\ LastEvent = Event("blockCache", Attached[k], <<>>)
        /\ LogNodes(log, "blockCache") = SubSeq(Attached, 1, k)
        /\ LogNodes(log, "connectTransactions") = SubSeq(Attached, 1, k - 1)

(* A resolution was run: fetchTxList was called, directly or by a          *)
(* fetchInputTransactions that got as far as line 236.                     *)
Resolved ==
    \/ op = "fetchTxList"
    \/ op = "fetchInputTransactions" /\ LogHas({"fetchTxList"})

(* C12: a failing storage read aborts the lookup.  When the node's parent  *)
(* cannot be materialized, or the block of a detach node cannot be read,   *)
(* fetchTxList, and the fetchInputTransactions that called it, return the  *)
(* storage error and no store; the failing read is the last thing done:    *)
(* the detach nodes before it were disconnected, none after it, and no     *)
(* block was connected.                                                    *)
C12_StorageFailureAborts ==
    Resolved =>
        /\ ~PrevOk =>
              /\ err = ErrStorage
              /\ txStore = EmptyStore
              /\ LastEvent = Event("getPrevNodeFromNode", node, <<>>)
              /\ ~LogHas(PastBaseline \cup {"FetchTxByShaList"})
        /\ (PrevOk /\ OffShortcut /\ FirstIn(Detached, dbFail) > 0) =>
              LET k == FirstIn(Detached, dbFail) IN
              /\ err = ErrStorage
              /\ txStore = EmptyStore
              /\ LastEvent = Event("FetchBlockBySha", Detached[k], <<>>)
              /\ LogNodes(log, "FetchBlockBySha") = SubSeq(Detached, 1, k)
              /\ LogNodes(log, "disconnectTransactions") = SubSeq(Detached, 1, k - 1)
              /\ ~LogHas({"blockCache", "connectTransactions"})

C12_Witness ==
    /\ op = "fetchInputTransactions"
    /\ err = ErrStorage
    /\ txStore = EmptyStore
    /\ PrevOk
    /\ Attached # <<>>
    /\ LogHas({"disconnectTransactions"})

(* C13: no spent slice of a store shares its array with storage: every    *)
(* step, be it a lookup with its disconnect and connect steps or the       *)
(* caller marking an output spent in a returned store, leaves storage as   *)
(* it was, and no entry of a returned store points into an array of        *)
(* storage.                                                                *)
StorageUntouched ==
    /\ dbTx' = dbTx
    /\ \A h \in DOMAIN txStore' : txStore'[h].buf # StorageBuf

C13_StorageNeverAliased == [][StorageUntouched]_vars

(* A lookup has changed a flag of a transaction storage knows, and the     *)
(* caller has then changed another one.                                    *)
C13_Witness ==
    /\ op = "callerSpends"
    /\ Detached # <<>>
    /\ LogHas({"disconnectTransactions"})
    /\ \E h \in DOMAIN txStore :
          /\ dbTx[h].known
          /\ txStore[h].err = ErrNil
          /\ \E j \in 1..Len(dbTx[h].spent) :
                dbTx[h].spent[j] /\ ~txStore[h].spent[j]
          /\ \E j \in 1..Len(dbTx[h].spent) :
                ~dbTx[h].spent[j] /\ txStore[h].spent[j]

(* C14: every entry with known status has one spent flag per output of its *)
(* transaction: in every store returned by fetchTxList and                 *)
(* fetchInputTransactions, and in the store after each disconnect and each *)
(* connect step of the lookup.                                             *)
WellSized(store) ==
    \A h \in DOMAIN store :
        store[h].err = ErrNil => Len(store[h].spent) = TxOutCount(store[h].tx)

(* The list the lookup asked storage for. *)
BaselineList ==
    IF \E i \in 1..Len(log) : log[i].ev = "FetchTxByShaList"
    THEN log[CHOOSE i \in 1..Len(log) : log[i].ev = "FetchTxByShaList"].list
    ELSE <<>>

(* The states of the lookup after the baseline and after each detach and   *)
(* each attach step, in order, up to the first step that fails.            *)
RECURSIVE StepsFrom(_, _)
StepsFrom(fs, k) ==
    IF fs.err # ErrNil \/ k > Len(Detached) + Len(Attached) THEN <<fs>>
    ELSE <<fs>> \o StepsFrom(IF k <= Len(Detached)
                             THEN DetachLoop(fs, <<Detached[k]>>, 1)
                             ELSE AttachLoop(fs, <<Attached[k - Len(Detached)]>>, 1),
                             k + 1)

StepStates == StepsFrom(FetchState(MainChainStore(BaselineList), ErrNil, <<>>), 1)

C14_KnownEntriesWellSized ==
    op \in {"fetchTxList", "fetchInputTransactions"} =>
        /\ err = ErrNil => WellSized(txStore)
        /\ (PrevOk /\ OffShortcut) =>
              LET steps == StepStates
              IN \A k \in 1..Len(steps) :
                    steps[k].err # ErrPanic => WellSized(steps[k].store)

C14_Witness ==
    /\ Returned("fetchInputTransactions")
    /\ Detached # <<>>
    /\ \E h \in DOMAIN txStore :
          /\ txStore[h].err = ErrNil
          /\ ~dbTx[h].known
          /\ TxOutCount(h) > 1
          /\ \E sb \in SeqToSet(Attached) : txStore[h].blockHeight = Height(sb)

(* C15: in a fetchTxList call off the main-chain shortcut the storage      *)
(* baseline is asked for before any block is touched, the detach nodes are *)
(* disconnected from the tip back to the fork point, and only after the    *)
(* last of them the attach nodes are connected from the fork point forward *)
(* to the node's parent.                                                   *)
IsPrefix(p, s) == Len(p) <= Len(s) /\ p = SubSeq(s, 1, Len(p))

EventsAt(evs) == {i \in 1..Len(log) : log[i].ev \in evs}

NewestFirst(s) ==
    /\ s # <<>> => s[1] = bestChain
    /\ \A i \in 1..(Len(s) - 1) : Parent(s[i]) = s[i + 1]

OldestFirst(s) ==
    /\ s # <<>> => s[Len(s)] = Parent(node)
    /\ \A i \in 1..(Len(s) - 1) : Parent(s[i + 1]) = s[i]

C15_DetachThenAttachInOrder ==
    (op = "fetchTxList" /\ PrevOk /\ OffShortcut) =>
        /\ \A i \in EventsAt({"FetchTxByShaList"}) :
              /\ log[i].list = txList
              /\ \A j \in EventsAt(PastBaseline) : i < j
        /\ EventsAt({"FetchTxByShaList"}) # {}
        /\ NewestFirst(Detached)
        /\ OldestFirst(Attached)
        /\ IsPrefix(LogNodes(log, "disconnectTransactions"), Detached)
        /\ IsPrefix(LogNodes(log, "connectTransactions"), Attached)
        /\ \A i \in EventsAt({"disconnectTransactions"}) :
              \A j \in EventsAt({"connectTransactions", "blockCache"}) : i < j
        /\ EventsAt({"connectTransactions", "blockCache"}) # {} =>
              LogNodes(log, "disconnectTransactions") = Detached
        /\ err = ErrNil =>
              /\ LogNodes(log, "disconnectTransactions") = Detached
              /\ LogNodes(log, "connectTransactions") = Attached

C15_Witness ==
    /\ Returned("fetchTxList")
    /\ Len(Detached) >= 2
    /\ Len(Attached) >= 2
    /\ LogNodes(log, "disconnectTransactions") = Detached
    /\ LogNodes(log, "connectTransactions") = Attached
    /\ txStore # EmptyStore

(* C16: for the best-chain tip and every target node of the tree the fork  *)
(* resolver's lists are disjoint, leave out the fork point (the lowest     *)
(* common ancestor of tip and target), and are exactly the best-chain      *)
(* nodes after it up to the tip and the nodes after it up to the target;   *)
(* and the store fetchTxList gets by undoing the detach list and redoing   *)
(* the attach list on the best-chain baseline is the view of the target:   *)
(* the replay of the blocks from genesis to the target.                    *)
Ancestors(n) == SeqToSet(PathTo(n))

IsForkPoint(f, target) ==
    /\ f \in Ancestors(bestChain) \cap Ancestors(target)
    /\ \A g \in Ancestors(bestChain) \cap Ancestors(target) : Height(g) <= Height(f)

ListsPartitionPath(target) ==
    LET reorg == getReorganizeNodes(target)
        f == ForkPoint(target)
    IN /\ IsForkPoint(f, target)
       /\ SeqToSet(reorg.detach) \cap SeqToSet(reorg.attach) = {}
       /\ SeqToSet(reorg.detach) = Ancestors(bestChain) \ Ancestors(f)
       /\ SeqToSet(reorg.attach) = Ancestors(target) \ Ancestors(f)
       /\ Len(reorg.detach) = Height(bestChain) - Height(f)
       /\ Len(reorg.attach) = Height(target) - Height(f)

ViewOfTarget(store, target) ==
    \A h \in Requested :
        IF LedgerAt(blocks, target)[h].known
        THEN /\ h \in DOMAIN store
             /\ store[h].err = ErrNil
             /\ store[h].blockHeight = LedgerAt(blocks, target)[h].height
             /\ store[h].spent = LedgerAt(blocks, target)[h].spent
        ELSE h \in DOMAIN store => store[h].err # ErrNil

C16_ListsPartitionPathAndGiveView ==
    bestChain # NoNode =>
        /\ \A target \in TreeNodes : ListsPartitionPath(target)
        /\ (Returned("fetchTxList") /\ OffShortcut) => ViewOfTarget(txStore, Parent(node))

(* C17: when the node's parent is on the best chain the attach list is     *)
(* empty and fetchTxList is done after the disconnects: it never asks the  *)
(* side-block cache, never connects a block, and its only failure is a     *)
(* storage error.                                                          *)
C17_OldMainChainNodeNeedsNoAttach ==
    (op = "fetchTxList" /\ bestChain # NoNode /\ Parent(node) \in Ancestors(bestChain)) =>
        /\ Attached = <<>>
        /\ ~LogHas({"blockCache", "connectTransactions"})
        /\ err \in {ErrNil, ErrStorage}
        /\ (PrevOk /\ FirstIn(Detached, dbFail) = 0) =>
              /\ err = ErrNil
              /\ LogNodes(log, "disconnectTransactions") = Detached
              /\ LastEvent.ev = IF Detached = <<>> THEN "FetchTxByShaList"
                                ELSE "disconnectTransactions"

C17_Witness ==
    /\ Returned("fetchTxList")
    /\ Parent(node) \in Ancestors(bestChain)
    /\ Len(Detached) >= 2
    /\ blockCache # SideNodes(bestChain)
    /\ LastEvent = Event("disconnectTransactions", Detached[Len(Detached)], <<>>)
    /\ \E h \in DOMAIN txStore : txStore[h].err = ErrNil

(* C18: in the store fetchInputTransactions returns, every referenced hash *)
(* that is the hash of a transaction of the block itself is known, carries *)
(* that transaction, the height of the node and one spent flag per output, *)
(* all false, whatever storage knows about the hash and although the block *)
(* spends an output of it.                                                 *)
C18_InFlightEntriesFromBlock ==
    Returned("fetchInputTransactions") =>
        \A h \in ReferencedHashes \cap InFlight(block) :
            /\ h \in DOMAIN txStore
            /\ txStore[h].err = ErrNil
            /\ txStore[h].tx = h
            /\ txStore[h].hash = h
            /\ txStore[h].blockHeight = Height(node)
            /\ txStore[h].spent = [j \in 1..TxOutCount(h) |-> FALSE]

C18_Witness ==
    /\ Returned("fetchInputTransactions")
    /\ \E h \in ReferencedHashes \cap InFlight(block) :
          /\ dbTx[h].known
          /\ dbTx[h].height # Height(node)
          /\ \E j \in 1..Len(dbTx[h].spent) : dbTx[h].spent[j]
          /\ txStore[h].spent = Unspent(h)
          /\ TxOutCount(h) > 1
    /\ ReferencedHashes \ InFlight(block) # {}

----------------------------------------------------------------------------
(* The two passes the specification speaks of: all entry steps of a block  *)
(* and all spent-flag steps of a block, each on its own.                   *)

RECURSIVE UpdateEntries(_, _, _)
UpdateEntries(st, blk, i) ==
    IF st.panic \/ i > Len(blk.txs) THEN st
    ELSE LET txHash == blk.txs[i]
         IN UpdateEntries(IF txHash \in DOMAIN st.store
                          THEN [st EXCEPT !.store[txHash] = ConnectEntry(@, txHash, blk)]
                          ELSE st, blk, i + 1)

RECURSIVE RemoveEntries(_, _, _)
RemoveEntries(st, blk, i) ==
    IF st.panic \/ i > Len(blk.txs) THEN st
    ELSE RemoveEntries([st EXCEPT !.store = DeleteKey(@, blk.txs[i])], blk, i + 1)

RECURSIVE MarkOrigins(_, _, _, _)
MarkOrigins(st, blk, i, val) ==
    IF st.panic \/ i > Len(blk.txs) THEN st
    ELSE MarkOrigins(SetOriginSpent(st, TxIn(blk.txs[i]), 1, val), blk, i + 1, val)

EntriesThenSpends(store, blk) ==
    MarkOrigins(UpdateEntries(Running(store), blk, 1), blk, 1, TRUE)

SpendsThenEntries(store, blk) ==
    UpdateEntries(MarkOrigins(Running(store), blk, 1, TRUE), blk, 1)

RemovalsThenUnspends(store, blk) ==
    MarkOrigins(RemoveEntries(Running(store), blk, 1), blk, 1, FALSE)

UnspendsThenRemovals(store, blk) ==
    RemoveEntries(MarkOrigins(Running(store), blk, 1, FALSE), blk, 1)

(* What the code's call has left, as an outcome to compare with. *)
CodeOutcome == [store |-> txStore, panic |-> err = ErrPanic]

SameOutcome(a, b) == a.panic = b.panic /\ (~a.panic => a.store = b.store)

AnyOrderAsCode ==
    /\ op = "connected" =>
          /\ SameOutcome(CodeOutcome, EntriesThenSpends(preStore, block))
          /\ SameOutcome(CodeOutcome, SpendsThenEntries(preStore, block))
    /\ op = "undone" =>
          /\ SameOutcome(CodeOutcome, RemovalsThenUnspends(preStore, block))
          /\ SameOutcome(CodeOutcome, UnspendsThenRemovals(preStore, block))

(* C19 as stated: for any store and block, the entry steps and the         *)
(* spent-flag steps of the block applied as two passes, in either order,   *)
(* leave what the code's per-transaction interleaving leaves, for          *)
(* connectTransactions and for disconnectTransactions, also when a         *)
(* transaction of the block spends an output of another one of the block.  *)
C19_OrderDoesNotMatter == AnyOrderAsCode

(* C19 amended: the order does not matter for a block none of whose inputs *)
(* refers to a transaction of the block itself: then the two passes in     *)
(* either order end as the code does, with the same store, or all with a   *)
(* panic.  For a block whose inputs refer, within the block, only to       *)
(* earlier transactions, the entry pass followed by the spent-flag pass    *)
(* still ends as the code does.                                            *)
NoInBlockSpend ==
    \A o \in InputsOf(block.txs, 1) : o.hash \notin InFlight(block)

SpendsEarlierOnly ==
    \A i \in 1..Len(block.txs) : \A o \in SeqToSet(TxIn(block.txs[i])) :
        o.hash \in InFlight(block) => PositionIn(block.txs, o.hash) < i

EntriesFirstAsCode ==
    /\ op = "connected" =>
          SameOutcome(CodeOutcome, EntriesThenSpends(preStore, block))
    /\ op = "undone" =>
          SameOutcome(CodeOutcome, RemovalsThenUnspends(preStore, block))

C19_OrderFreeWithoutInBlockSpend ==
    /\ NoInBlockSpend => AnyOrderAsCode
    /\ SpendsEarlierOnly => EntriesFirstAsCode

C19_Witness ==
    /\ op = "connected"
    /\ err = ErrNil
    /\ NoInBlockSpend
    /\ \E i \in 1..Len(block.txs) :
          /\ block.txs[i] \in DOMAIN preStore
          /\ preStore[block.txs[i]] # txStore[block.txs[i]]
          /\ \E o \in SeqToSet(TxIn(block.txs[i])) :
                /\ o.hash \in DOMAIN preStore
                /\ ~preStore[o.hash].spent[o.index + 1]
                /\ txStore[o.hash].spent[o.index + 1]

----------------------------------------------------------------------------
(* C20: no lookup ends in an index-out-of-range panic: every spent-flag    *)
(* write of a disconnect or connect step goes to an entry whose spent      *)
(* slice is longer than the output index, whatever the entry's status.     *)
C20_NoSpentWriteOutOfRange ==
    op \in {"fetchTxList", "fetchInputTransactions"} =>
        /\ err # ErrPanic
        /\ (PrevOk /\ OffShortcut) =>
              LET steps == StepStates
              IN \A k \in 1..Len(steps) : steps[k].err # ErrPanic

====
